---------------------------- MODULE Spec2Model ----------------------------
(***************************************************************************)
(* Model of the product price tracker (tracker.go, main.go, database.go,   *)
(* api.go).                                                                *)
(*                                                                         *)
(* The program is modelled goroutine by goroutine: main with its deferred  *)
(* calls; the scheduler loop StartTracking; the round executor             *)
(* trackAllProducts with its numWorkers priceWorker goroutines, the feeder *)
(* that fills and closes productChan, the waiter that closes resultChan    *)
(* after wg.Wait, and the collector loop that calls InsertPriceEntry.      *)
(***************************************************************************)
EXTENDS Integers, Sequences, FiniteSets, Bags, TLC

\* ------------------------------------------------------------------ bounds

\* Largest registry a round on its own is run over (RoundSpec).
MaxProducts == 3

\* Number of ticks the ticker delivers in one run.
MaxTicks == 2

\* Number of store calls that fail in one run.
MaxFaults == 1

\* Number of goroutines that call AddProduct at the same time.
MaxCallers == 2

\* Largest number of rows the measurement table holds when it is queried.
MaxRows == 3

\* Largest  limit  a history request asks for.
MaxLimit == 2

\* tracker.go:119
numWorkers == 5

\* api.go:58
defaultLimit == 50

\* Largest registry of PoolSpec: one product more than there are workers.
PoolSize == numWorkers + 1

\* ---------------------------------------------------------------- float64

\* A float64 is modelled by its class: NaN, the two infinities, or a number.
NaN == [k |-> "nan", n |-> 0]
PosInf == [k |-> "+inf", n |-> 0]
NegInf == [k |-> "-inf", n |-> 0]
Num(n) == [k |-> "num", n |-> n]
NoPrice == [k |-> "none", n |-> 0]

\* The float64 values a measurement source may hand back: fetchPrice is a
\* stand-in for a network fetch (tracker.go:170-171), so the worker's test is
\* modelled against every class of float64.
FetchValues == {NaN, NegInf, Num(-1), Num(0), Num(10), PosInf}

\* What the simulated fetchPrice of tracker.go:172-193 returns: the base price
\* within ten percent, a finite positive number.
SimulatedPrices == {Num(10)}

\* Go's  price > 0  on float64: false for NaN, true for +Inf.
GreaterThanZero(v) ==
    \/ v.k = "+inf"
    \/ v.k = "num" /\ v.n > 0

\* A value the data model calls valid: a finite positive number.
FinitePositive(v) == v.k = "num" /\ v.n > 0

\* ------------------------------------------------------------------ state

Max(a, b) == IF a >= b THEN a ELSE b

ProductIDs == 1..Max(MaxProducts, PoolSize)

\* models.go:8-12.  Name stands for the fields other than the key.
Product(id, name) == [ID |-> id, Name |-> name]
NoProduct == Product(0, 0)

\* main.go:27-31: laptop-1, phone-1, tablet-1; their names sort in this order.
sampleProducts == <<Product(1, 1), Product(2, 2), Product(3, 3)>>

VARIABLES
    products,       \* pt.products: the map's entries, in slot order
    mu,             \* pt.mu: [w |-> writer or "none", r |-> set of readers]
    source,         \* the values the measurement source returns in this run
    dbProducts,     \* the products table: id -> name
    price_entries,  \* the price_entries table, in insertion order
    dbClosed,       \* db.Close() has run
    faults,         \* history: store calls that have failed so far
    mpc,            \* where main is
    loaded,         \* loadProducts' local  products, err
    add,            \* the AddProduct call in progress: [pc, p]
    spc,            \* where StartTracking is
    tickerC,        \* ticks buffered in ticker.C (capacity 1)
    ctxDone,        \* cancel() has run
    ticks,          \* history: ticks the ticker fired
    dropped,        \* history: ticks dropped on the full ticker.C
    rounds,         \* history: calls of trackAllProducts begun
    tpc,            \* where trackAllProducts is
    snapshot,       \* its local slice  products
    entry,          \* the collector's loop variable
    spawned,        \* number of priceWorker goroutines started so far
    productChan,    \* [buf, closed]
    resultChan,     \* [buf, closed]
    wg,             \* the WaitGroup counter
    workers,        \* bag of the priceWorker goroutines' states
    feeder,         \* [pc, i]: the goroutine sending the products
    waiter,         \* pc of the goroutine doing wg.Wait; close(resultChan)
    fetchCalls,     \* history: product -> number of fetchPrice calls this round
    fetchResult,    \* history: product -> what fetchPrice returned this round
    produced,       \* history: entries sent on resultChan this round
    attempts,       \* history: InsertPriceEntry calls this round, with outcome
    roundBase,      \* history: Len(price_entries) when the round began
    callers,        \* goroutine -> its AddProduct call: [pc, p, err]
    inserted,       \* history: the products the callers' InsertProduct stored
    req,            \* the HTTP request being handled
    prev            \* history: the request handled before it, as answered

regVars == <<products, mu>>
dbVars == <<dbProducts, price_entries, dbClosed, faults>>

\* A store call may fail for a reason of its own.
MayFail == faults < MaxFaults
mainVars == <<source, mpc, loaded, add>>
schedVars == <<spc, tickerC, ctxDone, ticks, dropped, rounds>>
trackVars == <<tpc, snapshot, entry>>
poolVars == <<spawned, productChan, resultChan, wg, workers, feeder, waiter>>
histVars == <<fetchCalls, fetchResult, produced, attempts, roundBase>>
clientVars == <<callers, inserted, req, prev>>

vars == <<regVars, dbVars, mainVars, schedVars, trackVars, poolVars, histVars,
          clientVars>>

CallerIDs == 1..MaxCallers
IdleCaller == [pc |-> "idle", p |-> NoProduct, err |-> FALSE]

\* The process is running: main has neither returned nor called log.Fatal.
Alive == mpc \notin {"exit", "fatal"}

EmptyChan == [buf |-> <<>>, closed |-> FALSE]

Worker(pc, p, v) == [pc |-> pc, p |-> p, v |-> v]
WorkerRecv == Worker("recv", NoProduct, NoPrice)
WorkerDone == Worker("done", NoProduct, NoPrice)

\* models.go:15-20.  The row's id is its place in price_entries.
PriceEntry(p, v, t) == [ProductID |-> p, Price |-> v, Timestamp |-> t]
NoEntry == PriceEntry(0, NoPrice, 0)

\* tracker.go:163  time.Now(), read in ticker intervals.  Rounds begin an
\* interval apart and the fetches of one round read the same value.
Now == rounds

\* Replace one goroutine of the pool in state s by one in state t.
Move(s, t) == (workers (-) SetToBag({s})) (+) SetToBag({t})

\* The sequences a  for ... range  over the map m can produce.  A Go map of
\* at most eight entries keeps them in one bucket in insertion order, and an
\* iteration starts at a random slot and wraps around: the rotations of m.
MapRange(m) ==
    IF m = <<>> THEN {<<>>}
    ELSE {SubSeq(m, k, Len(m)) \o SubSeq(m, 1, k - 1) : k \in 1..Len(m)}

\* MapPut appending a present key as well.
MutMapPut(m, p) == Append(m, p)

\* pt.products[p.ID] = p: a present key keeps its slot, a new one is appended.
MapPut(m, p) ==
    IF \E i \in 1..Len(m) : m[i].ID = p.ID
    THEN [i \in 1..Len(m) |-> IF m[i].ID = p.ID THEN p ELSE m[i]]
    ELSE Append(m, p)

\* ------------------------------------------------------ trackAllProducts

\* The locals of a call of trackAllProducts that has just begun.
RoundStart ==
    /\ tpc' = "rlock"
    /\ snapshot' = <<>>
    /\ entry' = NoEntry
    /\ spawned' = 0
    /\ productChan' = EmptyChan
    /\ resultChan' = EmptyChan
    /\ wg' = 0
    /\ workers' = EmptyBag
    /\ feeder' = [pc |-> "none", i |-> 0]
    /\ waiter' = "none"
    /\ fetchCalls' = [p \in ProductIDs |-> 0]
    /\ fetchResult' = [p \in ProductIDs |-> NoPrice]
    /\ produced' = <<>>
    /\ attempts' = <<>>
    /\ roundBase' = Len(price_entries)

\* tracker.go:105  pt.mu.RLock()
TrackRLock ==
    /\ Alive
    /\ tpc = "rlock"
    /\ mu.w = "none"
    /\ mu' = [mu EXCEPT !.r = @ \cup {"round"}]
    /\ tpc' = "copy"
    /\ UNCHANGED <<products, snapshot, entry>>
    /\ UNCHANGED <<dbVars, mainVars, schedVars, poolVars, histVars>>
    /\ UNCHANGED clientVars

\* tracker.go:106-109  copy the map into a slice
TrackCopy ==
    /\ Alive
    /\ tpc = "copy"
    /\ \E s \in MapRange(products) : snapshot' = s
    /\ tpc' = "runlock"
    /\ UNCHANGED <<regVars, entry>>
    /\ UNCHANGED <<dbVars, mainVars, schedVars, poolVars, histVars>>
    /\ UNCHANGED clientVars

\* TrackRUnlock with the RUnlock forgotten.
MutTrackRUnlock ==
    /\ Alive
    /\ tpc = "runlock"
    /\ tpc' = IF Len(snapshot) = 0 THEN "returned" ELSE "spawn"
    /\ UNCHANGED <<regVars, snapshot, entry>>
    /\ UNCHANGED <<dbVars, mainVars, schedVars, poolVars, histVars>>
    /\ UNCHANGED clientVars

\* tracker.go:110-121  RUnlock; return on an empty slice; make the channels
TrackRUnlock ==
    /\ Alive
    /\ tpc = "runlock"
    /\ mu' = [mu EXCEPT !.r = @ \ {"round"}]
    /\ tpc' = IF Len(snapshot) = 0 THEN "returned" ELSE "spawn"
    /\ UNCHANGED <<products, snapshot, entry>>
    /\ UNCHANGED <<dbVars, mainVars, schedVars, poolVars, histVars>>
    /\ UNCHANGED clientVars

\* TrackSpawn starting two goroutines each time round the loop.
MutTrackSpawn ==
    /\ Alive
    /\ tpc = "spawn"
    /\ spawned < numWorkers
    /\ spawned' = spawned + 1
    /\ wg' = wg + 2
    /\ workers' = workers (+) SetToBag({WorkerRecv}) (+) SetToBag({WorkerRecv})
    /\ UNCHANGED <<productChan, resultChan, feeder, waiter>>
    /\ UNCHANGED <<regVars, dbVars, mainVars, schedVars, trackVars, histVars>>
    /\ UNCHANGED clientVars

\* tracker.go:124-128  wg.Add(1); go pt.priceWorker(...)
TrackSpawn ==
    /\ Alive
    /\ tpc = "spawn"
    /\ spawned < numWorkers
    /\ spawned' = spawned + 1
    /\ wg' = wg + 1
    /\ workers' = workers (+) SetToBag({WorkerRecv})
    /\ UNCHANGED <<productChan, resultChan, feeder, waiter>>
    /\ UNCHANGED <<regVars, dbVars, mainVars, schedVars, trackVars, histVars>>
    /\ UNCHANGED clientVars

\* tracker.go:131-142  start the feeder and the waiter goroutines
TrackGo ==
    /\ Alive
    /\ tpc = "spawn"
    /\ spawned = numWorkers
    /\ feeder' = [pc |-> "send", i |-> 1]
    /\ waiter' = "wait"
    /\ tpc' = "collect"
    /\ UNCHANGED <<snapshot, entry>>
    /\ UNCHANGED <<spawned, productChan, resultChan, wg, workers>>
    /\ UNCHANGED <<regVars, dbVars, mainVars, schedVars, histVars>>
    /\ UNCHANGED clientVars

\* FeederSend ranging over the map, not over the copy.
MutFeederSend ==
    /\ Alive
    /\ feeder.pc = "send"
    /\ feeder.i <= Len(products)
    /\ ~productChan.closed
    /\ Len(productChan.buf) < Len(snapshot)
    /\ productChan' = [productChan EXCEPT !.buf = Append(@, products[feeder.i])]
    /\ feeder' = [feeder EXCEPT !.i = @ + 1]
    /\ UNCHANGED <<spawned, resultChan, wg, workers, waiter>>
    /\ UNCHANGED <<regVars, dbVars, mainVars, schedVars, trackVars, histVars>>
    /\ UNCHANGED clientVars

\* tracker.go:132-134  productChan <- product  (capacity len(products))
FeederSend ==
    /\ Alive
    /\ feeder.pc = "send"
    /\ feeder.i <= Len(snapshot)
    /\ ~productChan.closed
    /\ Len(productChan.buf) < Len(snapshot)
    /\ productChan' = [productChan EXCEPT !.buf = Append(@, snapshot[feeder.i])]
    /\ feeder' = [feeder EXCEPT !.i = @ + 1]
    /\ UNCHANGED <<spawned, resultChan, wg, workers, waiter>>
    /\ UNCHANGED <<regVars, dbVars, mainVars, schedVars, trackVars, histVars>>
    /\ UNCHANGED clientVars

\* FeederClose with the close forgotten.
MutFeederClose ==
    /\ Alive
    /\ feeder.pc = "send"
    /\ feeder.i > Len(snapshot)
    /\ feeder' = [feeder EXCEPT !.pc = "done"]
    /\ UNCHANGED <<spawned, productChan, resultChan, wg, workers, waiter>>
    /\ UNCHANGED <<regVars, dbVars, mainVars, schedVars, trackVars, histVars>>
    /\ UNCHANGED clientVars

\* tracker.go:135  close(productChan)
FeederClose ==
    /\ Alive
    /\ feeder.pc = "send"
    /\ feeder.i > Len(snapshot)
    /\ productChan' = [productChan EXCEPT !.closed = TRUE]
    /\ feeder' = [feeder EXCEPT !.pc = "done"]
    /\ UNCHANGED <<spawned, resultChan, wg, workers, waiter>>
    /\ UNCHANGED <<regVars, dbVars, mainVars, schedVars, trackVars, histVars>>
    /\ UNCHANGED clientVars

\* ------------------------------------------------------------ priceWorker

\* WorkerReceive reading the head of the channel without taking it.
MutWorkerReceive ==
    /\ Alive
    /\ BagIn(WorkerRecv, workers)
    /\ productChan.buf # <<>>
    /\ LET p == Head(productChan.buf) IN
        /\ workers' = Move(WorkerRecv, Worker("fetch", p, NoPrice))
        /\ fetchCalls' = [fetchCalls EXCEPT ![p.ID] = @ + 1]
    /\ UNCHANGED <<spawned, productChan, resultChan, wg, feeder, waiter>>
    /\ UNCHANGED <<fetchResult, produced, attempts, roundBase>>
    /\ UNCHANGED <<regVars, dbVars, mainVars, schedVars, trackVars>>
    /\ UNCHANGED clientVars

\* tracker.go:157-158  receive a product and call fetchPrice on it
WorkerReceive ==
    /\ Alive
    /\ BagIn(WorkerRecv, workers)
    /\ productChan.buf # <<>>
    /\ LET p == Head(productChan.buf) IN
        /\ productChan' = [productChan EXCEPT !.buf = Tail(@)]
        /\ workers' = Move(WorkerRecv, Worker("fetch", p, NoPrice))
        /\ fetchCalls' = [fetchCalls EXCEPT ![p.ID] = @ + 1]
    /\ UNCHANGED <<spawned, resultChan, wg, feeder, waiter>>
    /\ UNCHANGED <<fetchResult, produced, attempts, roundBase>>
    /\ UNCHANGED <<regVars, dbVars, mainVars, schedVars, trackVars>>
    /\ UNCHANGED clientVars

\* tracker.go:158-164  fetchPrice returns v; the entry is built when v > 0
WorkerFetched(w, v) ==
    /\ Alive
    /\ w.pc = "fetch"
    /\ BagIn(w, workers)
    /\ workers' = Move(w, IF GreaterThanZero(v) THEN Worker("send", w.p, v)
                                                ELSE WorkerRecv)
    /\ fetchResult' = [fetchResult EXCEPT ![w.p.ID] = v]
    /\ UNCHANGED <<spawned, productChan, resultChan, wg, feeder, waiter>>
    /\ UNCHANGED <<fetchCalls, produced, attempts, roundBase>>
    /\ UNCHANGED <<regVars, dbVars, mainVars, schedVars, trackVars>>
    /\ UNCHANGED clientVars

\* tracker.go:165  resultChan <- entry  (capacity len(products))
WorkerSend(w) ==
    /\ Alive
    /\ w.pc = "send"
    /\ BagIn(w, workers)
    /\ ~resultChan.closed
    /\ Len(resultChan.buf) < Len(snapshot)
    /\ resultChan' = [resultChan EXCEPT !.buf = Append(@, PriceEntry(w.p.ID, w.v, Now))]
    /\ produced' = Append(produced, PriceEntry(w.p.ID, w.v, Now))
    /\ workers' = Move(w, WorkerRecv)
    /\ UNCHANGED <<spawned, productChan, wg, feeder, waiter>>
    /\ UNCHANGED <<fetchCalls, fetchResult, attempts, roundBase>>
    /\ UNCHANGED <<regVars, dbVars, mainVars, schedVars, trackVars>>
    /\ UNCHANGED clientVars

\* tracker.go:155-157  the range loop ends on the closed, drained channel;
\* the deferred wg.Done() runs
WorkerExit ==
    /\ Alive
    /\ BagIn(WorkerRecv, workers)
    /\ productChan.buf = <<>>
    /\ productChan.closed
    /\ workers' = Move(WorkerRecv, WorkerDone)
    /\ wg' = wg - 1
    /\ UNCHANGED <<spawned, productChan, resultChan, feeder, waiter>>
    /\ UNCHANGED <<regVars, dbVars, mainVars, schedVars, trackVars, histVars>>
    /\ UNCHANGED clientVars

\* WaiterWait not waiting for the workers.
MutWaiterWait ==
    /\ Alive
    /\ waiter = "wait"
    /\ waiter' = "close"
    /\ UNCHANGED <<spawned, productChan, resultChan, wg, workers, feeder>>
    /\ UNCHANGED <<regVars, dbVars, mainVars, schedVars, trackVars, histVars>>
    /\ UNCHANGED clientVars

\* tracker.go:140  wg.Wait() returns
WaiterWait ==
    /\ Alive
    /\ waiter = "wait"
    /\ wg = 0
    /\ waiter' = "close"
    /\ UNCHANGED <<spawned, productChan, resultChan, wg, workers, feeder>>
    /\ UNCHANGED <<regVars, dbVars, mainVars, schedVars, trackVars, histVars>>
    /\ UNCHANGED clientVars

\* tracker.go:141  close(resultChan)
WaiterClose ==
    /\ Alive
    /\ waiter = "close"
    /\ resultChan' = [resultChan EXCEPT !.closed = TRUE]
    /\ waiter' = "done"
    /\ UNCHANGED <<spawned, productChan, wg, workers, feeder>>
    /\ UNCHANGED <<regVars, dbVars, mainVars, schedVars, trackVars, histVars>>
    /\ UNCHANGED clientVars

\* -------------------------------------------------------------- collector

\* CollectReceive taking the entry sent last.
MutCollectReceive ==
    /\ Alive
    /\ tpc = "collect"
    /\ resultChan.buf # <<>>
    /\ entry' = resultChan.buf[Len(resultChan.buf)]
    /\ resultChan' = [resultChan EXCEPT
                         !.buf = SubSeq(@, 1, Len(@) - 1)]
    /\ tpc' = "insert"
    /\ UNCHANGED <<snapshot, spawned, productChan, wg, workers, feeder, waiter>>
    /\ UNCHANGED <<regVars, dbVars, mainVars, schedVars, histVars>>
    /\ UNCHANGED clientVars

\* tracker.go:145  for entry := range resultChan: the next entry arrives
CollectReceive ==
    /\ Alive
    /\ tpc = "collect"
    /\ resultChan.buf # <<>>
    /\ entry' = Head(resultChan.buf)
    /\ resultChan' = [resultChan EXCEPT !.buf = Tail(@)]
    /\ tpc' = "insert"
    /\ UNCHANGED <<snapshot, spawned, productChan, wg, workers, feeder, waiter>>
    /\ UNCHANGED <<regVars, dbVars, mainVars, schedVars, histVars>>
    /\ UNCHANGED clientVars

\* database.go:124-128  InsertPriceEntry appends a row, or fails; on a closed
\* database it fails
InsertPriceEntry(e, ok) ==
    /\ dbClosed => ~ok
    /\ ~ok /\ ~dbClosed => MayFail
    /\ faults' = IF ok \/ dbClosed THEN faults ELSE faults + 1
    /\ price_entries' = IF ok THEN Append(price_entries, e) ELSE price_entries
    /\ attempts' = Append(attempts, [e |-> e, ok |-> ok, closed |-> dbClosed])

\* CollectInsert returning from trackAllProducts on an error.
MutCollectInsert ==
    /\ Alive
    /\ tpc = "insert"
    /\ \E ok \in BOOLEAN :
        /\ InsertPriceEntry(entry, ok)
        /\ tpc' = IF ok THEN "collect" ELSE "returned"
    /\ entry' = NoEntry
    /\ UNCHANGED <<snapshot, dbProducts, dbClosed>>
    /\ UNCHANGED <<fetchCalls, fetchResult, produced, roundBase>>
    /\ UNCHANGED <<regVars, mainVars, schedVars, poolVars>>
    /\ UNCHANGED clientVars

\* tracker.go:146-150  the call's error is logged and the loop goes on
CollectInsert ==
    /\ Alive
    /\ tpc = "insert"
    /\ \E ok \in BOOLEAN : InsertPriceEntry(entry, ok)
    /\ entry' = NoEntry
    /\ tpc' = "collect"
    /\ UNCHANGED <<snapshot, dbProducts, dbClosed>>
    /\ UNCHANGED <<fetchCalls, fetchResult, produced, roundBase>>
    /\ UNCHANGED <<regVars, mainVars, schedVars, poolVars>>
    /\ UNCHANGED clientVars

\* tracker.go:145,152  the range loop ends on the closed, drained channel
CollectDone ==
    /\ Alive
    /\ tpc = "collect"
    /\ resultChan.buf = <<>>
    /\ resultChan.closed
    /\ tpc' = "returned"
    /\ UNCHANGED <<snapshot, entry>>
    /\ UNCHANGED <<regVars, dbVars, mainVars, schedVars, poolVars, histVars>>
    /\ UNCHANGED clientVars

\* The steps of one call of trackAllProducts and of the goroutines it starts.
Round ==
    \/ TrackRLock
    \/ TrackCopy
    \/ TrackRUnlock
    \/ TrackSpawn
    \/ TrackGo
    \/ FeederSend
    \/ FeederClose
    \/ WorkerReceive
    \/ \E w \in BagToSet(workers) : \E v \in source : WorkerFetched(w, v)
    \/ \E w \in BagToSet(workers) : WorkerSend(w)
    \/ WorkerExit
    \/ WaiterWait
    \/ WaiterClose
    \/ CollectReceive
    \/ CollectInsert
    \/ CollectDone

\* ---------------------------------------------------------------- database

NoRows == [i \in {} |-> 0]

\* database.go:54-58  INSERT OR REPLACE INTO products
InsertProduct(t, p) ==
    [i \in DOMAIN t \cup {p.ID} |-> IF i = p.ID THEN p.Name ELSE t[i]]

\* database.go:60-78  SELECT ... FROM products ORDER BY name: the sequences
\* of the rows of t in which no name comes before a smaller one
RECURSIVE GetAllProducts(_)
GetAllProducts(t) ==
    IF DOMAIN t = {} THEN {<<>>}
    ELSE UNION {{<<Product(i, t[i])>> \o s :
                    s \in GetAllProducts([j \in DOMAIN t \ {i} |-> t[j]])} :
                i \in {j \in DOMAIN t : \A k \in DOMAIN t : t[j] <= t[k]}}

\* The table holding the products of the sequence m.
Table(m) == [i \in {m[k].ID : k \in 1..Len(m)} |->
                (CHOOSE p \in {m[k] : k \in 1..Len(m)} : p.ID = i).Name]

RECURSIVE PutAll(_, _)
PutAll(m, ps) == IF ps = <<>> THEN m ELSE PutAll(MapPut(m, Head(ps)), Tail(ps))

\* --------------------------------------------------------------------- main

\* main.go:17-21, database.go:12-24  NewDatabase; log.Fatal when it fails
MainOpen ==
    /\ mpc = "open"
    /\ \/ /\ mpc' = "load"
          /\ faults' = faults
       \/ /\ MayFail
          /\ mpc' = "fatal"
          /\ faults' = faults + 1
    /\ UNCHANGED <<dbProducts, price_entries, dbClosed, source, loaded, add>>
    /\ UNCHANGED <<regVars, schedVars, trackVars, poolVars, histVars>>
    /\ UNCHANGED clientVars

\* tracker.go:25-27,33-36  loadProducts reads the table; NewPriceTracker only
\* logs a failure
LoadQuery ==
    /\ mpc = "load"
    /\ \/ \E ps \in GetAllProducts(dbProducts) :
            /\ loaded' = ps
            /\ mpc' = "loadlock"
            /\ add' = add
            /\ faults' = faults
       \/ /\ MayFail
          /\ faults' = faults + 1
          /\ loaded' = loaded
          /\ mpc' = "add"
          /\ add' = [pc |-> "lock", k |-> 1]
    /\ UNCHANGED <<dbProducts, price_entries, dbClosed, source>>
    /\ UNCHANGED <<regVars, schedVars, trackVars, poolVars, histVars>>
    /\ UNCHANGED clientVars

\* tracker.go:38  pt.mu.Lock()
LoadLock ==
    /\ mpc = "loadlock"
    /\ mu.w = "none" /\ mu.r = {}
    /\ mu' = [mu EXCEPT !.w = "main"]
    /\ mpc' = "loadput"
    /\ UNCHANGED <<products, source, loaded, add>>
    /\ UNCHANGED <<dbVars, schedVars, trackVars, poolVars, histVars>>
    /\ UNCHANGED clientVars

\* tracker.go:39-46  fill the map; the deferred Unlock runs and loadProducts
\* returns
LoadPut ==
    /\ mpc = "loadput"
    /\ products' = PutAll(products, loaded)
    /\ mu' = [mu EXCEPT !.w = "none"]
    /\ loaded' = <<>>
    /\ mpc' = "add"
    /\ add' = [pc |-> "lock", k |-> 1]
    /\ UNCHANGED source
    /\ UNCHANGED <<dbVars, schedVars, trackVars, poolVars, histVars>>
    /\ UNCHANGED clientVars

\* tracker.go:50  AddProduct: pt.mu.Lock()
AddLock ==
    /\ mpc = "add"
    /\ add.pc = "lock"
    /\ mu.w = "none" /\ mu.r = {}
    /\ mu' = [mu EXCEPT !.w = "main"]
    /\ add' = [add EXCEPT !.pc = "insert"]
    /\ UNCHANGED <<products, source, mpc, loaded>>
    /\ UNCHANGED <<dbVars, schedVars, trackVars, poolVars, histVars>>
    /\ UNCHANGED clientVars

\* tracker.go:54-56  pt.db.InsertProduct(product); return its error
AddInsert ==
    /\ mpc = "add"
    /\ add.pc = "insert"
    /\ \/ /\ dbProducts' = InsertProduct(dbProducts, sampleProducts[add.k])
          /\ add' = [add EXCEPT !.pc = "put"]
          /\ faults' = faults
       \/ /\ MayFail
          /\ faults' = faults + 1
          /\ dbProducts' = dbProducts
          /\ add' = [add EXCEPT !.pc = "unlock"]
    /\ UNCHANGED <<price_entries, dbClosed, source, mpc, loaded>>
    /\ UNCHANGED <<regVars, schedVars, trackVars, poolVars, histVars>>
    /\ UNCHANGED clientVars

\* tracker.go:59  pt.products[product.ID] = product
AddPut ==
    /\ mpc = "add"
    /\ add.pc = "put"
    /\ products' = MapPut(products, sampleProducts[add.k])
    /\ add' = [add EXCEPT !.pc = "unlock"]
    /\ UNCHANGED <<mu, source, mpc, loaded>>
    /\ UNCHANGED <<dbVars, schedVars, trackVars, poolVars, histVars>>
    /\ UNCHANGED clientVars

\* tracker.go:51  the deferred pt.mu.Unlock(); main.go:33-37 goes on
AddUnlock ==
    /\ mpc = "add"
    /\ add.pc = "unlock"
    /\ mu' = [mu EXCEPT !.w = "none"]
    /\ IF add.k < Len(sampleProducts)
       THEN /\ add' = [pc |-> "lock", k |-> add.k + 1]
            /\ mpc' = mpc
       ELSE /\ add' = [pc |-> "none", k |-> 0]
            /\ mpc' = "go"
    /\ UNCHANGED <<products, source, loaded>>
    /\ UNCHANGED <<dbVars, schedVars, trackVars, poolVars, histVars>>
    /\ UNCHANGED clientVars

\* main.go:40-43, tracker.go:88  go tracker.StartTracking(ctx, ...): the
\* ticker is made and the loop entered
MainGo ==
    /\ mpc = "go"
    /\ mpc' = "serve"
    /\ spc' = "select"
    /\ UNCHANGED <<source, loaded, add>>
    /\ UNCHANGED <<tickerC, ctxDone, ticks, dropped, rounds>>
    /\ UNCHANGED <<regVars, dbVars, trackVars, poolVars, histVars>>
    /\ UNCHANGED clientVars

\* main.go:61-63  <-quit: the interrupt signal arrives
MainQuit ==
    /\ mpc = "serve"
    /\ mpc' = "shutdown"
    /\ UNCHANGED <<source, loaded, add>>
    /\ UNCHANGED <<regVars, dbVars, schedVars, trackVars, poolVars, histVars>>
    /\ UNCHANGED clientVars

\* main.go:68-75  httpServer.Shutdown returns; main reaches its end
MainShutdown ==
    /\ mpc = "shutdown"
    /\ mpc' = "cancel"
    /\ UNCHANGED <<source, loaded, add>>
    /\ UNCHANGED <<regVars, dbVars, schedVars, trackVars, poolVars, histVars>>
    /\ UNCHANGED clientVars

\* main.go:41  the deferred cancel()
MainCancel ==
    /\ mpc = "cancel"
    /\ ctxDone' = TRUE
    /\ mpc' = "close"
    /\ UNCHANGED <<source, loaded, add>>
    /\ UNCHANGED <<spc, tickerC, ticks, dropped, rounds>>
    /\ UNCHANGED <<regVars, dbVars, trackVars, poolVars, histVars>>
    /\ UNCHANGED clientVars

\* main.go:21  the deferred db.Close()
MainClose ==
    /\ mpc = "close"
    /\ dbClosed' = TRUE
    /\ mpc' = "return"
    /\ UNCHANGED <<dbProducts, price_entries, faults, source, loaded, add>>
    /\ UNCHANGED <<regVars, schedVars, trackVars, poolVars, histVars>>
    /\ UNCHANGED clientVars

\* main.go:76  main returns and the process ends, whatever its goroutines do
MainReturn ==
    /\ mpc = "return"
    /\ mpc' = "exit"
    /\ UNCHANGED <<source, loaded, add>>
    /\ UNCHANGED <<regVars, dbVars, schedVars, trackVars, poolVars, histVars>>
    /\ UNCHANGED clientVars

\* main.go:15-58  main until it waits for the interrupt signal
Startup ==
    \/ MainOpen
    \/ LoadQuery
    \/ LoadLock
    \/ LoadPut
    \/ AddLock
    \/ AddInsert
    \/ AddPut
    \/ AddUnlock
    \/ MainGo

\* main.go:61-76  main from the interrupt signal on
Shutdown ==
    \/ MainQuit
    \/ MainShutdown
    \/ MainCancel
    \/ MainClose
    \/ MainReturn

Main == Startup \/ Shutdown

\* ------------------------------------------------------------ StartTracking

\* time.Ticker: a tick is put in ticker.C, or dropped when one is waiting
\* there.  The ticker runs from tracker.go:88 to the deferred Stop.
Tick ==
    /\ Alive
    /\ spc \in {"select", "round"}
    /\ ticks < MaxTicks
    /\ ticks' = ticks + 1
    /\ IF tickerC = 0
       THEN tickerC' = 1 /\ dropped' = dropped
       ELSE tickerC' = tickerC /\ dropped' = dropped + 1
    /\ UNCHANGED <<spc, ctxDone, rounds>>
    /\ UNCHANGED <<regVars, dbVars, mainVars, trackVars, poolVars, histVars>>
    /\ UNCHANGED clientVars

\* tracker.go:94-97  select takes  case <-ctx.Done()  and the loop returns
SelectDone ==
    /\ Alive
    /\ spc = "select"
    /\ ctxDone
    /\ spc' = "stopped"
    /\ UNCHANGED <<tickerC, ctxDone, ticks, dropped, rounds>>
    /\ UNCHANGED <<regVars, dbVars, mainVars, trackVars, poolVars, histVars>>
    /\ UNCHANGED clientVars

\* SelectTick as a default case: a round is begun with no tick taken.
MutSelectTick ==
    /\ Alive
    /\ spc = "select"
    /\ rounds < MaxTicks
    /\ spc' = "round"
    /\ rounds' = rounds + 1
    /\ RoundStart
    /\ UNCHANGED <<tickerC, ctxDone, ticks, dropped>>
    /\ UNCHANGED <<regVars, dbVars, mainVars>>
    /\ UNCHANGED clientVars

\* SelectTick with  go pt.trackAllProducts() : the loop selects again
\* while the call executes.
MutSelectTickGo ==
    /\ Alive
    /\ spc = "select"
    /\ tickerC > 0
    /\ tickerC' = tickerC - 1
    /\ spc' = "select"
    /\ rounds' = rounds + 1
    /\ RoundStart
    /\ UNCHANGED <<ctxDone, ticks, dropped>>
    /\ UNCHANGED <<regVars, dbVars, mainVars>>
    /\ UNCHANGED clientVars

\* tracker.go:94,98-99  select takes  case <-ticker.C  and calls
\* trackAllProducts.  When both cases are ready select takes either.
SelectTick ==
    /\ Alive
    /\ spc = "select"
    /\ tickerC > 0
    /\ tickerC' = tickerC - 1
    /\ spc' = "round"
    /\ rounds' = rounds + 1
    /\ RoundStart
    /\ UNCHANGED <<ctxDone, ticks, dropped>>
    /\ UNCHANGED <<regVars, dbVars, mainVars>>
    /\ UNCHANGED clientVars

\* tracker.go:99,93  trackAllProducts has returned; the loop selects again
TrackReturn ==
    /\ Alive
    /\ spc = "round"
    /\ tpc = "returned"
    /\ tpc' = "idle"
    /\ spc' = "select"
    /\ UNCHANGED <<snapshot, entry>>
    /\ UNCHANGED <<tickerC, ctxDone, ticks, dropped, rounds>>
    /\ UNCHANGED <<regVars, dbVars, mainVars, poolVars, histVars>>
    /\ UNCHANGED clientVars

Sched ==
    \/ Tick
    \/ SelectDone
    \/ SelectTick
    \/ TrackReturn

\* ------------------------------------------------------------ store reads

\* database.go:156-161  SELECT COUNT(*) FROM products WHERE id = ?; count > 0
ProductExists(t, id) == Cardinality({i \in DOMAIN t : i = id}) > 0

\* The row ids of the rows of product id.
RowsOf(rows, id) == {i \in 1..Len(rows) : rows[i].ProductID = id}

\* database.go:132,146-150  a row as it is scanned into a PriceEntry
Scan(rows, i) ==
    [ID |-> i, ProductID |-> rows[i].ProductID, Price |-> rows[i].Price,
     Timestamp |-> rows[i].Timestamp]

\* database.go:135-136  ORDER BY timestamp DESC LIMIT n over the rows S: the
\* sequences that take a row with the greatest timestamp first, n times or
\* until no row is left.  Rows with equal timestamps come in either order.
RECURSIVE OrderByTimestampDesc(_, _, _)
OrderByTimestampDesc(rows, S, n) ==
    IF n <= 0 \/ S = {} THEN {<<>>}
    ELSE UNION {{<<Scan(rows, i)>> \o s :
                    s \in OrderByTimestampDesc(rows, S \ {i}, n - 1)} :
                i \in {j \in S : \A k \in S :
                                   rows[j].Timestamp >= rows[k].Timestamp}}

\* GetPriceHistory with  ORDER BY timestamp ASC.
MutGetPriceHistory(rows, id, limit) ==
    {[i \in 1..(IF limit < Len(s) THEN limit ELSE Len(s)) |-> s[Len(s) + 1 - i]] :
        s \in OrderByTimestampDesc(rows, RowsOf(rows, id), Len(rows))}

\* database.go:130-154  the results  SELECT ... WHERE product_id = ? ORDER BY
\* timestamp DESC LIMIT ?  can give
GetPriceHistory(rows, id, limit) ==
    OrderByTimestampDesc(rows, RowsOf(rows, id), limit)

\* models.go:22-26, database.go:86-92,111-116  a product with  price  and
\* timestamp  of the row of its partition that has rn = 1, or with neither
WithLatest(rows, p) ==
    IF RowsOf(rows, p.ID) = {}
    THEN {[ID |-> p.ID, Name |-> p.Name, LatestPrice |-> NoPrice,
           LastUpdated |-> 0]}
    ELSE {[ID |-> p.ID, Name |-> p.Name, LatestPrice |-> s[1].Price,
           LastUpdated |-> s[1].Timestamp] :
             s \in OrderByTimestampDesc(rows, RowsOf(rows, p.ID), 1)}

RECURSIVE LeftJoin(_, _)
LeftJoin(ps, rows) ==
    IF ps = <<>> THEN {<<>>}
    ELSE {<<h>> \o s : h \in WithLatest(rows, Head(ps)),
                       s \in LeftJoin(Tail(ps), rows)}

\* database.go:80-122  products LEFT JOIN their latest row, ORDER BY p.name
GetProductsWithLatestPrices(t, rows) ==
    UNION {LeftJoin(ps, rows) : ps \in GetAllProducts(t)}

\* ----------------------------------------------------------- HTTP handlers

\* The ids a history request names:  0  is the empty id.
RequestIDs == 0..3

\* api.go:58-63  the limit of a request whose  limit  parameter is l
Limit(l) == IF l > 0 THEN l ELSE defaultLimit

\* A request: what was asked, where its handler is, and what it answered.
Request(op, id, limit, pc, err, status, out) ==
    [op |-> op, id |-> id, limit |-> limit, pc |-> pc, err |-> err,
     status |-> status, out |-> out, queried |-> FALSE]
NoRequest == Request("none", 0, 0, "idle", "none", "none", <<>>)

\* A request arrives when the one before is answered;  prev  keeps that one
\* when it asked the same.
Accept(op, id, limit) ==
    /\ Alive
    /\ mpc = "serve"
    /\ req.pc \in {"idle", "done"}
    /\ prev' = IF req.pc = "done" /\ req.op = op /\ req.id = id
                                  /\ req.limit = limit
               THEN req ELSE NoRequest

\* api.go:48-63  handleGetPriceHistory: an empty id is a bad request; limit
\* is the query parameter when that is a positive number, and 50 otherwise
HandleGetPriceHistory(id, l) ==
    /\ Accept("history", id, Limit(l))
    /\ req' = IF id = 0
              THEN Request("history", id, Limit(l), "done", "none", "BadRequest", <<>>)
              ELSE Request("history", id, Limit(l), "exists", "none", "none", <<>>)
    /\ UNCHANGED <<callers, inserted>>
    /\ UNCHANGED <<regVars, dbVars, mainVars, schedVars, trackVars, poolVars,
                   histVars>>

\* GetPriceHistoryExists taking every product to exist.
MutGetPriceHistoryExists ==
    /\ Alive
    /\ req.pc = "exists"
    /\ req' = [req EXCEPT !.pc = "query"]
    /\ UNCHANGED <<callers, inserted, prev>>
    /\ UNCHANGED <<regVars, dbVars, mainVars, schedVars, trackVars, poolVars,
                   histVars>>

\* tracker.go:76-82, api.go:65-69  PriceTracker.GetPriceHistory calls
\* ProductExists; its error, or "product not found", is answered with 404
GetPriceHistoryExists ==
    /\ Alive
    /\ req.pc = "exists"
    /\ \/ /\ MayFail
          /\ faults' = faults + 1
          /\ req' = [req EXCEPT !.pc = "done", !.err = "store",
                                !.status = "NotFound"]
       \/ /\ ~ProductExists(dbProducts, req.id)
          /\ faults' = faults
          /\ req' = [req EXCEPT !.pc = "done", !.err = "product not found",
                                !.status = "NotFound"]
       \/ /\ ProductExists(dbProducts, req.id)
          /\ faults' = faults
          /\ req' = [req EXCEPT !.pc = "query"]
    /\ UNCHANGED <<dbProducts, price_entries, dbClosed>>
    /\ UNCHANGED <<callers, inserted, prev>>
    /\ UNCHANGED <<regVars, mainVars, schedVars, trackVars, poolVars, histVars>>

\* GetPriceHistoryQuery taking the rows it returns out of the table.
MutGetPriceHistoryQuery ==
    /\ Alive
    /\ req.pc = "query"
    /\ \E h \in GetPriceHistory(price_entries, req.id, req.limit) :
          /\ req' = [req EXCEPT !.pc = "done", !.status = "OK", !.out = h,
                                !.queried = TRUE]
          /\ price_entries' =
                SelectSeq(price_entries,
                          LAMBDA e : \A i \in 1..Len(h) : h[i].Timestamp # e.Timestamp
                                                       \/ h[i].ProductID # e.ProductID)
    /\ UNCHANGED <<dbProducts, dbClosed, faults>>
    /\ UNCHANGED <<callers, inserted, prev>>
    /\ UNCHANGED <<regVars, mainVars, schedVars, trackVars, poolVars, histVars>>

\* tracker.go:84, api.go:65-75  db.GetPriceHistory: its error is answered
\* with 404, its rows with 200
GetPriceHistoryQuery ==
    /\ Alive
    /\ req.pc = "query"
    /\ \/ /\ MayFail
          /\ faults' = faults + 1
          /\ req' = [req EXCEPT !.pc = "done", !.err = "store",
                                !.status = "NotFound", !.queried = TRUE]
       \/ \E h \in GetPriceHistory(price_entries, req.id, req.limit) :
            /\ faults' = faults
            /\ req' = [req EXCEPT !.pc = "done", !.status = "OK", !.out = h,
                                  !.queried = TRUE]
    /\ UNCHANGED <<dbProducts, price_entries, dbClosed>>
    /\ UNCHANGED <<callers, inserted, prev>>
    /\ UNCHANGED <<regVars, mainVars, schedVars, trackVars, poolVars, histVars>>

\* api.go:43-46, tracker.go:65-72  handleGetProducts: GetProducts logs the
\* store's error and returns an empty list; either way the answer is 200
HandleGetProducts ==
    /\ Accept("products", 0, 0)
    /\ \/ /\ MayFail
          /\ faults' = faults + 1
          /\ req' = Request("products", 0, 0, "done", "store", "OK", <<>>)
       \/ \E ps \in GetProductsWithLatestPrices(dbProducts, price_entries) :
            /\ faults' = faults
            /\ req' = Request("products", 0, 0, "done", "none", "OK", ps)
    /\ UNCHANGED <<dbProducts, price_entries, dbClosed>>
    /\ UNCHANGED <<callers, inserted>>
    /\ UNCHANGED <<regVars, mainVars, schedVars, trackVars, poolVars, histVars>>

\* The reading routes of the API server.
Serve ==
    \/ \E id \in RequestIDs : \E l \in 0..MaxLimit : HandleGetPriceHistory(id, l)
    \/ GetPriceHistoryExists
    \/ GetPriceHistoryQuery
    \/ HandleGetProducts

\* ------------------------------------------------- callers of AddProduct

\* The products the callers register: one with the id of a sample product,
\* two that differ only in their name, and one more.
CallerProducts == {Product(1, 4), Product(4, 4), Product(4, 5), Product(5, 5)}

\* The ids of the products of the sequence m.
IDs(m) == {m[i].ID : i \in 1..Len(m)}

\* The products of the sequence m.
Entities(m) == {m[i] : i \in 1..Len(m)}

\* AddLock for a caller, taking the lock whoever holds it.
MutCallLock(c, p) ==
    /\ Alive
    /\ mpc = "serve"
    /\ callers[c].pc = "idle"
    /\ mu' = [mu EXCEPT !.w = "caller"]
    /\ callers' = [callers EXCEPT ![c] = [pc |-> "insert", p |-> p, err |-> FALSE]]
    /\ UNCHANGED <<products, inserted, req, prev>>
    /\ UNCHANGED <<dbVars, mainVars, schedVars, trackVars, poolVars, histVars>>

\* tracker.go:49-50  a goroutine calls AddProduct(p): pt.mu.Lock()
CallLock(c, p) ==
    /\ Alive
    /\ mpc = "serve"
    /\ callers[c].pc = "idle"
    /\ mu.w = "none" /\ mu.r = {}
    /\ mu' = [mu EXCEPT !.w = "caller"]
    /\ callers' = [callers EXCEPT ![c] = [pc |-> "insert", p |-> p, err |-> FALSE]]
    /\ UNCHANGED <<products, inserted, req, prev>>
    /\ UNCHANGED <<dbVars, mainVars, schedVars, trackVars, poolVars, histVars>>

\* CallInsert going on to the map insert when InsertProduct has failed.
MutCallInsert(c) ==
    /\ Alive
    /\ callers[c].pc = "insert"
    /\ \/ /\ dbProducts' = InsertProduct(dbProducts, callers[c].p)
          /\ inserted' = Append(inserted, callers[c].p)
          /\ callers' = [callers EXCEPT ![c].pc = "put"]
          /\ faults' = faults
       \/ /\ MayFail
          /\ faults' = faults + 1
          /\ dbProducts' = dbProducts
          /\ inserted' = inserted
          /\ callers' = [callers EXCEPT ![c].pc = "put", ![c].err = TRUE]
    /\ UNCHANGED <<price_entries, dbClosed, req, prev>>
    /\ UNCHANGED <<regVars, mainVars, schedVars, trackVars, poolVars, histVars>>

\* tracker.go:54-56  pt.db.InsertProduct(product); return its error
CallInsert(c) ==
    /\ Alive
    /\ callers[c].pc = "insert"
    /\ \/ /\ dbProducts' = InsertProduct(dbProducts, callers[c].p)
          /\ inserted' = Append(inserted, callers[c].p)
          /\ callers' = [callers EXCEPT ![c].pc = "put"]
          /\ faults' = faults
       \/ /\ MayFail
          /\ faults' = faults + 1
          /\ dbProducts' = dbProducts
          /\ inserted' = inserted
          /\ callers' = [callers EXCEPT ![c].pc = "unlock", ![c].err = TRUE]
    /\ UNCHANGED <<price_entries, dbClosed, req, prev>>
    /\ UNCHANGED <<regVars, mainVars, schedVars, trackVars, poolVars, histVars>>

\* tracker.go:59  pt.products[product.ID] = product
CallPut(c) ==
    /\ Alive
    /\ callers[c].pc = "put"
    /\ products' = MapPut(products, callers[c].p)
    /\ callers' = [callers EXCEPT ![c].pc = "unlock"]
    /\ UNCHANGED <<mu, inserted, req, prev>>
    /\ UNCHANGED <<dbVars, mainVars, schedVars, trackVars, poolVars, histVars>>

\* tracker.go:51,62  the deferred pt.mu.Unlock(); AddProduct returns
CallUnlock(c) ==
    /\ Alive
    /\ callers[c].pc = "unlock"
    /\ mu' = [mu EXCEPT !.w = "none"]
    /\ callers' = [callers EXCEPT ![c].pc = "returned"]
    /\ UNCHANGED <<products, inserted, req, prev>>
    /\ UNCHANGED <<dbVars, mainVars, schedVars, trackVars, poolVars, histVars>>

\* The AddProduct calls of the goroutines other than main.
Register ==
    \/ \E c \in CallerIDs : \E p \in CallerProducts : CallLock(c, p)
    \/ \E c \in CallerIDs : CallInsert(c)
    \/ \E c \in CallerIDs : CallPut(c)
    \/ \E c \in CallerIDs : CallUnlock(c)

\* ----------------------------------------------------------- specifications

\* No call of trackAllProducts has been made.
NoRound ==
    /\ snapshot = <<>>
    /\ entry = NoEntry
    /\ spawned = 0
    /\ productChan = EmptyChan
    /\ resultChan = EmptyChan
    /\ wg = 0
    /\ workers = EmptyBag
    /\ feeder = [pc |-> "none", i |-> 0]
    /\ waiter = "none"
    /\ fetchCalls = [p \in ProductIDs |-> 0]
    /\ fetchResult = [p \in ProductIDs |-> NoPrice]
    /\ produced = <<>>
    /\ attempts = <<>>
    /\ roundBase = 0

\* No goroutine has called AddProduct and no request has arrived.
NoClient ==
    /\ callers = [c \in CallerIDs |-> IdleCaller]
    /\ inserted = <<>>
    /\ req = NoRequest
    /\ prev = NoRequest

\* The program at the start of main: the database file is new, or holds the
\* sample products of an earlier run.
Init ==
    /\ products = <<>>
    /\ mu = [w |-> "none", r |-> {}]
    /\ source = SimulatedPrices
    /\ dbProducts \in {NoRows, Table(sampleProducts)}
    /\ price_entries = <<>>
    /\ dbClosed = FALSE
    /\ faults = 0
    /\ mpc = "open"
    /\ loaded = <<>>
    /\ add = [pc |-> "none", k |-> 0]
    /\ spc = "none"
    /\ tickerC = 0
    /\ ctxDone = FALSE
    /\ ticks = 0
    /\ dropped = 0
    /\ rounds = 0
    /\ tpc = "idle"
    /\ NoRound
    /\ NoClient

Next == Main \/ Sched \/ Round

Spec == Init /\ [][Next]_vars

\* Every goroutine that can take a step takes one; the interrupt signal and
\* the ticks are the environment's and need not come.  A select with both of
\* its cases ready takes each of them sooner or later.
FairSpec ==
    /\ Spec
    /\ WF_vars(Main /\ mpc # "serve")
    /\ WF_vars(Round)
    /\ WF_vars(TrackReturn)
    /\ SF_vars(SelectDone)
    /\ SF_vars(SelectTick)

\* The program for as long as no interrupt signal arrives.
ServeSpec ==
    Init /\ [][Startup \/ Tick \/ SelectTick \/ TrackReturn \/ Round]_vars

\* The registry after n registrations.
Registry(n) == [i \in 1..n |-> Product(i, i)]

\* One call of trackAllProducts in a running process, over a registry of n
\* products and the measurement source src, after f store calls have failed.
RoundInit(n, src, f) ==
    /\ products = Registry(n)
    /\ mu = [w |-> "none", r |-> {}]
    /\ source = src
    /\ dbProducts = Table(Registry(n))
    /\ price_entries = <<>>
    /\ dbClosed = FALSE
    /\ faults = f
    /\ mpc = "serve"
    /\ loaded = <<>>
    /\ add = [pc |-> "none", k |-> 0]
    /\ spc = "round"
    /\ tickerC = 0
    /\ ctxDone = FALSE
    /\ ticks = 1
    /\ dropped = 0
    /\ rounds = 1
    /\ tpc = "rlock"
    /\ NoRound
    /\ NoClient

\* A round over at most MaxProducts products, any float64 fetched.
RoundSpec ==
    /\ \E n \in 0..MaxProducts : RoundInit(n, FetchValues, 0)
    /\ [][Round]_vars

\* A round over at most PoolSize products, more than there are workers, with
\* the simulated fetchPrice and a store that fails no call.
PoolSpec ==
    /\ \E n \in 0..PoolSize : RoundInit(n, SimulatedPrices, MaxFaults)
    /\ [][Round]_vars

\* A round over at most as many products as there are workers, with the
\* simulated fetchPrice and a store that fails no call, in which a goroutine
\* that can take a step takes one sooner or later: fetchPrice and the
\* store's calls return.
FairRoundSpec ==
    /\ \E n \in 0..numWorkers : RoundInit(n, SimulatedPrices, MaxFaults)
    /\ [][Round]_vars
    /\ WF_vars(Round)

\* The AddProduct call of one goroutine other than main.
RegisterOnce ==
    \/ \E p \in CallerProducts : CallLock(1, p)
    \/ CallInsert(1)
    \/ CallPut(1)
    \/ CallUnlock(1)

\* The rounds of a running process over a registry of two products at first,
\* while another goroutine calls AddProduct.
OverlapSpec ==
    /\ RoundInit(2, SimulatedPrices, MaxFaults)
    /\ [][Round \/ RegisterOnce \/ Tick \/ SelectTick \/ TrackReturn]_vars

\* The registry's operations: main's start, the AddProduct calls of other
\* goroutines once main serves, and the first round as far as its snapshot.
RegistrySpec ==
    Init /\ [][Startup \/ Register \/ Tick \/ SelectTick
                  \/ TrackRLock \/ TrackCopy \/ TrackRUnlock]_vars

\* The measurement tables of at most MaxRows rows with rows of product 1
\* written at different times, in any order, and at most one row of
\* product 2 among them.
HistoryTables ==
    {r \in UNION {[1..k -> {PriceEntry(1, v, t) : v \in SimulatedPrices,
                                                  t \in 1..MaxRows}
                           \cup {PriceEntry(2, v, 1) : v \in SimulatedPrices}] :
                     k \in 0..MaxRows} :
        \A i, j \in DOMAIN r : i # j => r[i] # r[j]}

\* The API server of a running process between two rounds: two products are
\* registered, earlier rounds have left any table of HistoryTables.
HistoryInit ==
    /\ products = Registry(2)
    /\ mu = [w |-> "none", r |-> {}]
    /\ source = SimulatedPrices
    /\ dbProducts = Table(Registry(2))
    /\ price_entries \in HistoryTables
    /\ dbClosed = FALSE
    /\ faults = 0
    /\ mpc = "serve"
    /\ loaded = <<>>
    /\ add = [pc |-> "none", k |-> 0]
    /\ spc = "select"
    /\ tickerC = 0
    /\ ctxDone = FALSE
    /\ ticks = MaxRows
    /\ dropped = 0
    /\ rounds = MaxRows
    /\ tpc = "idle"
    /\ NoRound
    /\ NoClient

HistorySpec == HistoryInit /\ [][Serve]_vars

\* ------------------------------------------------------------------ claims

\* The entries InsertPriceEntry has been called with in this round, in order.
Attempted == [i \in 1..Len(attempts) |-> attempts[i].e]

\* The rows this round has added to price_entries.
Added == SubSeq(price_entries, roundBase + 1, Len(price_entries))

\* The ids of the snapshot's products.
SnapshotIDs == {snapshot[i].ID : i \in 1..Len(snapshot)}

Succeeded(a) == a.ok

\* C1: trackAllProducts has returned only when every worker has finished, the
\* result channel is drained and InsertPriceEntry has been called for every
\* entry a worker sent, in the order they were sent.
C1_ReturnsAfterAllWork ==
    tpc = "returned" =>
        /\ \A w \in BagToSet(workers) : w.pc = "done"
        /\ BagCardinality(workers) = IF snapshot = <<>> THEN 0 ELSE numWorkers
        /\ resultChan.buf = <<>>
        /\ entry = NoEntry
        /\ Attempted = produced

\* A round over three products has returned, two entries produced and one
\* fetch discarded.
C1_Witness ==
    /\ tpc = "returned"
    /\ Len(snapshot) = 3
    /\ Len(produced) = 2
    /\ Len(attempts) = 2

\* C2: fetchPrice is never called twice for a product in a round, and when
\* the round has returned it has been called once for each product of the
\* snapshot and for no other.
C2_EachFetchedOnce ==
    /\ \A p \in ProductIDs : fetchCalls[p] <= 1
    /\ tpc = "returned" =>
        \A p \in ProductIDs : fetchCalls[p] = IF p \in SnapshotIDs THEN 1 ELSE 0

\* A round over more products than there are workers has returned.
C2_Witness ==
    /\ tpc = "returned"
    /\ Len(snapshot) > numWorkers
    /\ \A p \in SnapshotIDs : fetchCalls[p] = 1

C5_FailureDoesNotAbort ==
    /\ Added = [i \in 1..Len(SelectSeq(attempts, Succeeded)) |->
                  SelectSeq(attempts, Succeeded)[i].e]
    /\ tpc = "returned" => Len(attempts) = Len(produced)

\* A round has returned in which a call failed and a later one succeeded.
C5_Witness ==
    /\ tpc = "returned"
    /\ \E i, j \in 1..Len(attempts) : i < j /\ ~attempts[i].ok /\ attempts[j].ok
    /\ Len(Added) = Len(attempts) - 1

\* C6: the store is not closed while a round is in progress, and
\* InsertPriceEntry is never called on a closed store.
C6_StoreOpenDuringRound ==
    /\ dbClosed => spc # "round"
    /\ \A i \in 1..Len(attempts) : ~attempts[i].closed

\* C7: once the context is cancelled no round is begun.
C7_NoRoundAfterCancel == [][ctxDone => rounds' = rounds]_vars

\* C8: once the context is cancelled StartTracking returns.
C8_StopsAfterCancel == ctxDone ~> spc = "stopped"

\* C9 as stated: a tick that fires while a round is executing begins a round
\* of its own at once.
C9_TickDuringRoundStartsRound ==
    [][(spc = "round" /\ ticks' = ticks + 1) => rounds' = rounds + 1]_vars

\* C9 as amended: every round is begun by taking one tick from ticker.C; a
\* tick that fires is taken at once, or waits in ticker.C, which holds one
\* tick, or is dropped.  A tick that fires during a round begins none then.
C9_TicksAccounted ==
    /\ tickerC \in {0, 1}
    /\ ticks = rounds + tickerC + dropped

\* A tick waits in ticker.C while a round is inserting.
C9_Witness ==
    /\ spc = "round"
    /\ tpc = "insert"
    /\ tickerC = 1
    /\ rounds = 1

\* Some goroutine is inside fetchPrice, InsertPriceEntry or InsertProduct.
InFetchOrWrite ==
    \/ \E w \in BagToSet(workers) : w.pc = "fetch"
    \/ tpc = "insert"
    \/ mpc = "add" /\ add.pc = "insert"

\* C10 as stated: no goroutine holds pt.mu while one is inside fetchPrice,
\* InsertPriceEntry or InsertProduct.
C10_NoLockAcrossFetchOrWrite ==
    InFetchOrWrite => mu = [w |-> "none", r |-> {}]

\* C10 as amended: the round holds its read lock only while it copies the
\* map, so not while its workers fetch or its collector writes;  AddProduct
\* holds the write lock from before InsertProduct until after the map insert,
\* and loadProducts only while it fills the map.
C10_LockScopes ==
    /\ "round" \in mu.r <=> tpc \in {"copy", "runlock"}
    /\ mu.w = "main" <=>
          \/ mpc = "loadput"
          \/ mpc = "add" /\ add.pc \in {"insert", "put", "unlock"}
    /\ mu.w # "none" => mu.r = {}
    /\ (tpc = "insert" \/ \E w \in BagToSet(workers) : w.pc = "fetch") =>
          "round" \notin mu.r

\* A worker is inside fetchPrice while the collector is inside
\* InsertPriceEntry, and nobody holds the lock.
C10_Witness ==
    /\ tpc = "insert"
    /\ \E w \in BagToSet(workers) : w.pc = "fetch"
    /\ mu = [w |-> "none", r |-> {}]

\* The AddProduct call of goroutine c has returned.
Returned(c) == callers[c].pc = "returned"

\* No other goroutine has called AddProduct with the id c has.
OnlyRegistrant(c) ==
    \A d \in CallerIDs \ {c} : callers[d].p.ID # callers[c].p.ID

\* C11: an AddProduct call fails only when a store call has failed; a
\* snapshot taken when calls have returned without error holds the id of
\* each, and the very product when no other call had its id; the map insert
\* of an id the registry holds leaves the registry's size as it was.
C11_DistinctAllVisible ==
    [][/\ \A c \in CallerIDs : callers[c].err => faults > 0
       /\ (tpc = "copy" /\ tpc' = "runlock") =>
             \A c \in CallerIDs : (Returned(c) /\ ~callers[c].err) =>
                /\ callers[c].p.ID \in IDs(snapshot')
                /\ OnlyRegistrant(c) => callers[c].p \in Entities(snapshot')
       /\ \A c \in CallerIDs :
             (/\ callers[c].pc = "put"
              /\ callers'[c].pc = "unlock"
              /\ callers[c].p.ID \in IDs(products)) =>
                Len(products') = Len(products)]_vars

\* The calls of all the goroutines, each with an id of its own, have
\* returned, and the snapshot taken after that holds the product of each.
C11_Witness ==
    /\ tpc = "runlock"
    /\ Cardinality({callers[c].p.ID : c \in CallerIDs}) = MaxCallers
    /\ \A c \in CallerIDs :
          Returned(c) /\ ~callers[c].err /\ callers[c].p \in Entities(snapshot)

\* An AddProduct call has stored a product with this id and has yet to
\* insert it into the map.
Upserting(id) ==
    \/ \E c \in CallerIDs : callers[c].pc = "put" /\ callers[c].p.ID = id
    \/ mpc = "add" /\ add.pc = "put" /\ sampleProducts[add.k].ID = id

\* Every product of the registry has a row in the products table, and the
\* row is that product unless a call is replacing it right now.
StoredBeforeVisible ==
    \A i \in 1..Len(products) :
        /\ ProductExists(dbProducts, products[i].ID)
        /\ dbProducts[products[i].ID] = products[i].Name
              \/ Upserting(products[i].ID)

\* C12: every product of the registry has been written to the store before;
\* an AddProduct call whose InsertProduct fails goes to its return with the
\* error and the map as it was.
C12_DurableBeforeVisible ==
    /\ []StoredBeforeVisible
    /\ [][/\ \A c \in CallerIDs :
               (callers'[c].err /\ callers'[c] # callers[c]) =>
                  /\ products' = products
                  /\ callers'[c].pc \in {"unlock", "returned"}
          /\ (mpc = "add" /\ add.pc = "insert" /\ faults' = faults + 1) =>
                  /\ products' = products
                  /\ add'.pc = "unlock"]_vars

\* A call has returned with an error and its product is not in the registry;
\* another has returned without and its product is in the store and in the
\* registry.
C12_Witness ==
    \E c, d \in CallerIDs :
        /\ Returned(c) /\ callers[c].err
        /\ callers[c].p \notin Entities(products)
        /\ Returned(d) /\ ~callers[d].err
        /\ callers[d].p \in Entities(products)
        /\ dbProducts[callers[d].p.ID] = callers[d].p.Name

\* The product the callers' InsertProduct stored last under this id.
RECURSIVE LastInserted(_, _)
LastInserted(s, id) ==
    IF s = <<>> THEN NoProduct
    ELSE IF s[Len(s)].ID = id THEN s[Len(s)]
    ELSE LastInserted(SubSeq(s, 1, Len(s) - 1), id)

\* C13: AddProduct with an id that is registered already does not fail for
\* that; when no call is in progress, the products table and the registry
\* hold, under each id the callers have stored, the product that was stored
\* last, and the registry holds it once.
C13_LastRegistrationWins ==
    /\ \A c \in CallerIDs : callers[c].err => faults > 0
    /\ mu.w = "none" =>
          \A id \in IDs(inserted) :
              /\ ProductExists(dbProducts, id)
              /\ Product(id, dbProducts[id]) = LastInserted(inserted, id)
              /\ \E i \in 1..Len(products) :
                    /\ products[i] = LastInserted(inserted, id)
                    /\ \A j \in 1..Len(products) :
                          products[j].ID = id => j = i

\* Two calls with one id and different products have returned; the registry
\* and the table hold the product of the call that stored second.
C13_Witness ==
    /\ mu.w = "none"
    /\ \E c, d \in CallerIDs :
          /\ c # d
          /\ Returned(c) /\ Returned(d)
          /\ callers[c].p.ID = callers[d].p.ID
          /\ callers[c].p # callers[d].p
          /\ inserted = <<callers[c].p, callers[d].p>>
          /\ callers[d].p \in Entities(products)
          /\ dbProducts[callers[d].p.ID] = callers[d].p.Name

\* The request in hand is a history request that has been answered.
HistoryAnswered == req.pc = "done" /\ req.op = "history"

\* C14: a history request for a product of the products table, with no store
\* call failing, is answered with rows of the measurement table, each once
\* and each of that product, newest first, no row left out being newer than
\* one returned, and as many as the limit or, if fewer, as the product has.
C14_NewestFirstAtMostLimit ==
    (HistoryAnswered /\ ProductExists(dbProducts, req.id) /\ req.err = "none") =>
        LET out == req.out
            own == RowsOf(price_entries, req.id)
        IN  /\ req.status = "OK"
            /\ req.limit >= 1
            /\ \A i \in 1..Len(out) :
                  /\ out[i].ID \in own
                  /\ out[i] = Scan(price_entries, out[i].ID)
                  /\ out[i].ProductID = req.id
            /\ \A i, j \in 1..Len(out) :
                  i < j => /\ out[i].ID # out[j].ID
                           /\ out[i].Timestamp >= out[j].Timestamp
            /\ \A k \in own \ {out[i].ID : i \in 1..Len(out)} :
                  \A i \in 1..Len(out) :
                      price_entries[k].Timestamp <= out[i].Timestamp
            /\ Len(out) = IF req.limit < Cardinality(own)
                          THEN req.limit ELSE Cardinality(own)

\* Three rounds have each added a measurement of product 1, and a history
\* request with limit 1 is answered with the one added last.
C14_Witness ==
    /\ price_entries = [t \in 1..3 |-> PriceEntry(1, Num(10), t)]
    /\ HistoryAnswered
    /\ req.id = 1
    /\ req.limit = 1
    /\ req.out = <<Scan(price_entries, 3)>>

\* C15: PriceTracker.GetPriceHistory for an id with no row in the products
\* table, when ProductExists has not failed, returns "product not found" and
\* no rows, whatever the limit, and does not go on to the query on the
\* measurement table, which it leaves as it was.
C15_UnknownIsNotFound ==
    [][(/\ req.pc = "exists"
        /\ req' # req
        /\ ~ProductExists(dbProducts, req.id)
        /\ faults' = faults) =>
            /\ req'.pc = "done"
            /\ req'.err = "product not found"
            /\ req'.out = <<>>
            /\ ~req'.queried
            /\ price_entries' = price_entries]_vars

\* A request with the default limit for the id of no product has been
\* answered "product not found" while the measurement table holds rows.
C15_Witness ==
    /\ HistoryAnswered
    /\ ~ProductExists(dbProducts, req.id)
    /\ req.limit = defaultLimit
    /\ req.err = "product not found"
    /\ ~req.queried
    /\ price_entries # <<>>

\* C16: a request is answered NotFound only when it names an id of no
\* product, and a request during which a store call failed is answered with
\* an internal error.
C16_StoreFaultIsInternalError ==
    req.pc = "done" =>
        /\ req.status = "NotFound" => ~ProductExists(dbProducts, req.id)
        /\ req.err = "store" => req.status = "InternalServerError"

\* The request in hand and the one before it asked the same, and both were
\* answered with no store call failing.
AnsweredTwice ==
    /\ req.pc = "done" /\ req.err = "none"
    /\ prev.pc = "done" /\ prev.err = "none"

\* C18: the handlers of the list and the history request change neither the
\* products table nor the measurement table nor the registry, and a request
\* that asks what the one before it asked is answered as that was.
C18_ReadsArePure ==
    /\ [](AnsweredTwice => req.status = prev.status /\ req.out = prev.out)
    /\ [][req' # req =>
            UNCHANGED <<dbProducts, price_entries, products>>]_vars

\* A history request has twice been answered with two rows.
C18_Witness ==
    /\ AnsweredTwice
    /\ req.op = "history"
    /\ Len(req.out) = 2
    /\ prev.out = req.out

\* C17: when NewDatabase or the read of loadProducts fails, main ends the
\* process with log.Fatal, so that no scheduler is started, no round runs
\* and no request is served.
C17_UnreadableStoreIsFatal ==
    [][(mpc \in {"open", "load"} /\ faults' = faults + 1) => mpc' = "fatal"]_vars

\* The number of priceWorker goroutines that are inside fetchPrice.
Fetching ==
    BagCardinality([w \in {x \in BagToSet(workers) : x.pc = "fetch"} |->
                       CopiesIn(w, workers)])

\* C19: a round has at most numWorkers priceWorker goroutines, so at most
\* numWorkers calls of fetchPrice are in progress, however many products the
\* snapshot holds, and no more than it holds products.
C19_AtMostNumWorkersFetch ==
    /\ BagCardinality(workers) <= numWorkers
    /\ Fetching <= numWorkers
    /\ Fetching <= Len(snapshot)

\* With more products than workers every worker is inside fetchPrice and a
\* product waits in the channel.
C19_Witness ==
    /\ Len(snapshot) > numWorkers
    /\ Fetching = numWorkers
    /\ productChan.buf # <<>>

\* No goroutine is about to send on, or to close, a closed channel, and one
\* that is about to send finds room in the channel.
ChannelsUsedRight ==
    /\ feeder.pc = "send" => ~productChan.closed
    /\ (feeder.pc = "send" /\ feeder.i <= Len(snapshot)) =>
          Len(productChan.buf) < Len(snapshot)
    /\ \A w \in BagToSet(workers) :
          w.pc = "send" => /\ ~resultChan.closed
                           /\ Len(resultChan.buf) < Len(snapshot)
    /\ waiter = "close" => ~resultChan.closed

\* trackAllProducts has returned and every goroutine it started has exited.
RoundOver ==
    /\ tpc = "returned"
    /\ \A w \in BagToSet(workers) : w.pc = "done"
    /\ BagCardinality(workers) = IF snapshot = <<>> THEN 0 ELSE numWorkers
    /\ feeder.pc = IF snapshot = <<>> THEN "none" ELSE "done"
    /\ waiter = IF snapshot = <<>> THEN "none" ELSE "done"

\* C20: whatever the number of products, fewer than numWorkers or none, a
\* round whose goroutines keep taking their steps comes to the point where
\* trackAllProducts has returned and the workers, the feeder and the waiter
\* have exited; no channel is sent on or closed after it was closed, and no
\* send has to wait.
C20_RoundTerminates ==
    /\ []ChannelsUsedRight
    /\ <>RoundOver

\* A round over fewer products than workers is over: the workers that got
\* no product have exited as well.
C20_Witness ==
    /\ RoundOver
    /\ Len(snapshot) = 1
    /\ Len(attempts) = 1

\* A worker of the round is inside fetchPrice or its collector inside
\* InsertPriceEntry.
RoundAtWork == Fetching > 0 \/ tpc = "insert"

\* C21: the round fetches the products of the copy it made of the map, all
\* of the map at the time of the copy, and no other, whatever AddProduct
\* inserts meanwhile; an AddProduct call changes neither the copy nor what
\* has been fetched; and while the round fetches or writes it holds no lock,
\* so that a goroutine calling AddProduct finds the lock free.
C21_RoundUsesItsCopy ==
    /\ [](/\ \A p \in ProductIDs : fetchCalls[p] > 0 => p \in SnapshotIDs
          /\ \A w \in BagToSet(workers) :
                w.pc \in {"fetch", "send"} => w.p \in Entities(snapshot)
          /\ tpc = "returned" => \A p \in SnapshotIDs : fetchCalls[p] = 1
          /\ RoundAtWork => "round" \notin mu.r
          /\ (RoundAtWork /\ callers[1].pc = "idle") =>
                mu.w = "none" /\ mu.r = {})
    /\ [][/\ (tpc = "copy" /\ tpc' = "runlock") => snapshot' \in MapRange(products)
          /\ callers' # callers =>
                /\ snapshot' = snapshot
                /\ fetchCalls' = fetchCalls
                /\ productChan' = productChan]_vars

\* AddProduct has returned, having registered a new product, while a worker
\* of the round is inside fetchPrice; the round's copy does not hold the
\* product.
C21_Witness ==
    /\ Fetching > 0
    /\ Returned(1) /\ ~callers[1].err
    /\ callers[1].p \in Entities(products)
    /\ callers[1].p.ID \notin SnapshotIDs
    /\ fetchCalls[callers[1].p.ID] = 0

\* The entry the collector has received and not yet written, if any.
InHand == IF tpc = "insert" THEN <<entry>> ELSE <<>>

\* C22: the entries the workers have sent on resultChan are, in the order
\* they were sent, those InsertPriceEntry has been called with, then the one
\* the collector is calling it with, then those still in the channel; the
\* collector is inside InsertPriceEntry with one entry at a time, and when
\* the round has returned the calls are the entries sent, in their order.
C22_OneCollectorInOrder ==
    /\ produced = Attempted \o InHand \o resultChan.buf
    /\ tpc = "insert" <=> entry # NoEntry
    /\ tpc = "returned" => Attempted = produced

\* A round over three products has returned; the product sent to the workers
\* last was the first to have its entry sent and written.
C22_Witness ==
    /\ tpc = "returned"
    /\ Len(attempts) = 3
    /\ produced[1].ProductID = snapshot[3].ID
    /\ Attempted = produced

\* No goroutine of a round remains.
NoGoroutineLeft ==
    /\ \A w \in BagToSet(workers) : w.pc = "done"
    /\ feeder.pc \in {"none", "done"}
    /\ waiter \in {"none", "done"}

\* C23: StartTracking is inside trackAllProducts exactly while a call of it
\* is executing, and between two calls no goroutine of a round remains; a
\* call is begun only from the select, with no call executing, by taking a
\* tick; and no tick is taken and no cancellation read but in the select.
C23_RoundsNeverOverlap ==
    /\ [](/\ spc = "round" <=> tpc # "idle"
          /\ tpc \in {"idle", "returned"} => NoGoroutineLeft)
    /\ [][/\ rounds' # rounds =>
                /\ rounds' = rounds + 1
                /\ spc = "select" /\ tpc = "idle"
                /\ tickerC' = tickerC - 1
          /\ (tickerC' < tickerC \/ (spc' = "stopped" /\ spc # "stopped")) =>
                spc = "select" /\ tpc = "idle"]_vars

\* The second round is writing an entry, after the first has written its
\* own and returned.
C23_Witness ==
    /\ rounds = 2
    /\ tpc = "insert"
    /\ roundBase > 0

=============================================================================
